---------------------------- MODULE Spec2Model ----------------------------
(***************************************************************************)
(* A model of shareplum's Site client (src/shareplum/site.py): the         *)
(* construction of a Site, and its operations add_list, delete_list,       *)
(* get_list_collection, get_users and list.                                *)
(*                                                                         *)
(* A Python str is a sequence of one-character strings, so that str(int),  *)
(* str.isdigit, slicing, concatenation, str.replace and f-strings are      *)
(* computed and not assumed.  None is the one-element sequence <<"None">>, *)
(* which is no str.  A Python dict is a function whose domain is its key   *)
(* set.  An lxml element is a record [tag, attrib, text, children].        *)
(***************************************************************************)
EXTENDS Integers, Sequences, FiniteSets, TLC

\* ------------------------------------------------------------------------
\* Bounds of the model
\* ------------------------------------------------------------------------
MaxRows == 3
MaxLists == 2

\* ------------------------------------------------------------------------
\* Python values
\* ------------------------------------------------------------------------
None == <<"None">>

Digits == <<"0","1","2","3","4","5","6","7","8","9">>

DigitChars == {Digits[i] : i \in 1..10}

\* str(n) for an int n
RECURSIVE NatToStr(_)
NatToStr(n) ==
  IF n < 10 THEN <<Digits[n + 1]>>
  ELSE NatToStr(n \div 10) \o <<Digits[(n % 10) + 1]>>

IntToStr(n) == IF n < 0 THEN <<"-">> \o NatToStr(-n) ELSE NatToStr(n)

\* s.isdigit(): every character is a digit and there is at least one
isdigit(s) == Len(s) > 0 /\ \A i \in 1..Len(s) : s[i] \in DigitChars

\* s[n:]
SliceFrom(s, n) == SubSeq(s, n + 1, Len(s))

\* s.replace(old, new), old not empty: every occurrence, left to right
RECURSIVE Replace(_, _, _)
Replace(s, old, new) ==
  IF Len(s) < Len(old) THEN s
  ELSE IF SubSeq(s, 1, Len(old)) = old
       THEN new \o Replace(SubSeq(s, Len(old) + 1, Len(s)), old, new)
       ELSE <<s[1]>> \o Replace(Tail(s), old, new)

\* d[k] = v on a dict
DictSet(d, k, v) == [x \in (DOMAIN d) \cup {k} |-> IF x = k THEN v ELSE d[x]]

EmptyDict == << >>

\* the sequences over S of length at most n
SeqsUpTo(S, n) == UNION {[1..k -> S] : k \in 0..n}

\* ------------------------------------------------------------------------
\* lxml elements
\* ------------------------------------------------------------------------
\* attrib is the sequence of (key, value) pairs in document order
Element(tag, attrib, text, children) ==
  [tag |-> tag, attrib |-> attrib, text |-> text, children |-> children]

\* element[i] exists
HasChild(e, i) == i + 1 <= Len(e.children)

\* element[i]
Child(e, i) == e.children[i + 1]

\* element[p1][p2]... exists, p a sequence of indexes
RECURSIVE HasPath(_, _)
HasPath(e, p) ==
  \/ p = << >>
  \/ HasChild(e, Head(p)) /\ HasPath(Child(e, Head(p)), Tail(p))

\* element[p1][p2]...
RECURSIVE AtPath(_, _)
AtPath(e, p) == IF p = << >> THEN e ELSE AtPath(Child(e, Head(p)), Tail(p))


\* ------------------------------------------------------------------------
\* The SOAP envelope builder (shareplum/soap.py)
\* ------------------------------------------------------------------------
SoapNamespace == <<"h","t","t","p",":","/","/","s","c","h","e","m","a","s",".","m","i","c","r","o","s","o","f","t",".","c","o","m","/","s","h","a","r","e","p","o","i","n","t","/","s","o","a","p","/">>

\* Soap(command): a method name and no parameters yet
Soap(command) == [command |-> command, params |-> << >>]

\* soap.add_parameter(parameter, value): appended in call order
add_parameter(soap, parameter, value) ==
  [soap EXCEPT !.params = Append(@, <<parameter, value>>)]

\* the serialization of one parameter element
ParamXml(p) == <<"<">> \o p[1] \o <<">">> \o p[2] \o <<"<","/">> \o p[1] \o <<">">>

RECURSIVE ParamsXml(_)
ParamsXml(ps) == IF ps = << >> THEN << >> ELSE ParamXml(Head(ps)) \o ParamsXml(Tail(ps))

\* str(soap): the envelope, the body, the method element and its parameters
SoapStr(soap) ==
  <<"<","E","n","v","e","l","o","p","e",">","<","B","o","d","y",">","<">> \o soap.command \o <<" ","x","m","l","n","s","=","'">> \o SoapNamespace \o <<"'",">">>
    \o ParamsXml(soap.params)
    \o <<"<","/">> \o soap.command \o <<">","<","/","B","o","d","y",">","<","/","E","n","v","e","l","o","p","e",">">>

\* ------------------------------------------------------------------------
\* HTTP: what session.post is given and what it answers
\* ------------------------------------------------------------------------
\* s.encode("utf-8")
EncodeUtf8(s) == <<"utf-8">> \o s

\* the reason phrase the server sends with a status
Reason(status_code) ==
  CASE status_code = 200 -> <<"O","K">>
    [] status_code = 201 -> <<"C","r","e","a","t","e","d">>
    [] status_code = 302 -> <<"F","o","u","n","d">>
    [] status_code = 404 -> <<"N","o","t"," ","F","o","u","n","d">>
    [] status_code = 500 -> <<"I","n","t","e","r","n","a","l"," ","S","e","r","v","e","r"," ","E","r","r","o","r">>
    [] OTHER -> <<>>

\* A reply to session.post: either the transport raised (exc), or a Response
\* with status_code, reason and text; xml is what etree.fromstring makes of
\* text: [wf |-> FALSE, err] for text that is no XML, else [wf |-> TRUE,
\* huge, root], huge meaning that the parser refuses it without huge_tree.
NoElement == Element(None, << >>, None, << >>)

Malformed(err) == [wf |-> FALSE, err |-> err, huge |-> FALSE, root |-> NoElement]

Document(root, huge) == [wf |-> TRUE, err |-> None, huge |-> huge, root |-> root]

Response(status_code, text, xml) ==
  [exc |-> FALSE, status_code |-> status_code, reason |-> Reason(status_code),
   text |-> text, xml |-> xml]

TransportError ==
  [exc |-> TRUE, status_code |-> 0, reason |-> None, text |-> None,
   xml |-> Malformed(None)]

\* response.raise_for_status(): the HTTPError message of a 4xx or 5xx status,
\* None when it raises nothing
raise_for_status(response, url) ==
  IF 400 <= response.status_code /\ response.status_code < 500
  THEN IntToStr(response.status_code) \o <<" ","C","l","i","e","n","t"," ","E","r","r","o","r",":"," ">> \o response.reason
         \o <<" ","f","o","r"," ","u","r","l",":"," ">> \o url
  ELSE IF 500 <= response.status_code /\ response.status_code < 600
  THEN IntToStr(response.status_code) \o <<" ","S","e","r","v","e","r"," ","E","r","r","o","r",":"," ">> \o response.reason
         \o <<" ","f","o","r"," ","u","r","l",":"," ">> \o url
  ELSE None

\* etree.fromstring(response.text.encode("utf-8"),
\*                  parser=etree.XMLParser(huge_tree=huge_tree)):
\* [ok |-> TRUE, root] or [ok |-> FALSE, err] with the parser's message
fromstring(response, huge_tree_flag) ==
  IF ~response.xml.wf
  THEN [ok |-> FALSE, err |-> response.xml.err, root |-> NoElement]
  ELSE IF response.xml.huge /\ ~huge_tree_flag
  THEN [ok |-> FALSE, err |-> <<"x","m","l","S","A","X","2","C","h","a","r","a","c","t","e","r","s",":"," ","h","u","g","e"," ","t","e","x","t"," ","n","o","d","e">>, root |-> NoElement]
  ELSE [ok |-> TRUE, err |-> None, root |-> response.xml.root]


\* ------------------------------------------------------------------------
\* The Site object
\* ------------------------------------------------------------------------
VARIABLES
  phase,         \* "new": Site(...) not yet called; "ready": it returned a
                 \* Site; "failed": __init__ raised and no Site exists
  site_url,      \* self.site_url
  verify_ssl,    \* self._verify_ssl
  session,       \* self._session: [auth, cookies, headers, adapters]
  huge_tree,     \* self.huge_tree
  timeout,       \* self.timeout
  last_request,  \* self.last_request
  services_url,  \* self._services_url
  users,         \* self.users
  fetched,       \* how the get_users call of __init__ ended: "return" or
                 \* "raise" ("none" before it)
  outcome,       \* the last call: its name, arguments, reply and result
  wire           \* the requests the last call gave to session.post

config == <<site_url, verify_ssl, session, huge_tree, timeout, services_url>>

vars == <<phase, site_url, verify_ssl, session, huge_tree, timeout,
          last_request, services_url, users, fetched, outcome, wire>>

\* self._services_url, as built by __init__
ServicesUrl ==
  [k \in {"Alerts", "Authentication", "Copy", "Dws", "Forms", "Imaging", "DspSts",
          "Lists", "Meetings", "People", "Permissions", "SiteData", "Sites",
          "Search", "UserGroup", "Versions", "Views", "WebPartPages", "Webs"} |->
     CASE k = "Alerts" -> <<"/","_","v","t","i","_","b","i","n","/","A","l","e","r","t","s",".","a","s","m","x">>
       [] k = "Authentication" -> <<"/","_","v","t","i","_","b","i","n","/","A","u","t","h","e","n","t","i","c","a","t","i","o","n",".","a","s","m","x">>
       [] k = "Copy" -> <<"/","_","v","t","i","_","b","i","n","/","C","o","p","y",".","a","s","m","x">>
       [] k = "Dws" -> <<"/","_","v","t","i","_","b","i","n","/","D","w","s",".","a","s","m","x">>
       [] k = "Forms" -> <<"/","_","v","t","i","_","b","i","n","/","F","o","r","m","s",".","a","s","m","x">>
       [] k = "Imaging" -> <<"/","_","v","t","i","_","b","i","n","/","I","m","a","g","i","n","g",".","a","s","m","x">>
       [] k = "DspSts" -> <<"/","_","v","t","i","_","b","i","n","/","D","s","p","S","t","s",".","a","s","m","x">>
       [] k = "Lists" -> <<"/","_","v","t","i","_","b","i","n","/","l","i","s","t","s",".","a","s","m","x">>
       [] k = "Meetings" -> <<"/","_","v","t","i","_","b","i","n","/","M","e","e","t","i","n","g","s",".","a","s","m","x">>
       [] k = "People" -> <<"/","_","v","t","i","_","b","i","n","/","P","e","o","p","l","e",".","a","s","m","x">>
       [] k = "Permissions" -> <<"/","_","v","t","i","_","b","i","n","/","P","e","r","m","i","s","s","i","o","n","s",".","a","s","m","x">>
       [] k = "SiteData" -> <<"/","_","v","t","i","_","b","i","n","/","S","i","t","e","D","a","t","a",".","a","s","m","x">>
       [] k = "Sites" -> <<"/","_","v","t","i","_","b","i","n","/","S","i","t","e","s",".","a","s","m","x">>
       [] k = "Search" -> <<"/","_","v","t","i","_","b","i","n","/","S","e","a","r","c","h",".","a","s","m","x">>
       [] k = "UserGroup" -> <<"/","_","v","t","i","_","b","i","n","/","u","s","e","r","g","r","o","u","p",".","a","s","m","x">>
       [] k = "Versions" -> <<"/","_","v","t","i","_","b","i","n","/","V","e","r","s","i","o","n","s",".","a","s","m","x">>
       [] k = "Views" -> <<"/","_","v","t","i","_","b","i","n","/","V","i","e","w","s",".","a","s","m","x">>
       [] k = "WebPartPages" -> <<"/","_","v","t","i","_","b","i","n","/","W","e","b","P","a","r","t","P","a","g","e","s",".","a","s","m","x">>
       [] k = "Webs" -> <<"/","_","v","t","i","_","b","i","n","/","W","e","b","s",".","a","s","m","x">>]

\* shareplum.version.__version__
version == <<"0",".","5",".","1">>

\* self, as the methods read it
Self ==
  [site_url |-> site_url, verify_ssl |-> verify_ssl, session |-> session,
   huge_tree |-> huge_tree, timeout |-> timeout, last_request |-> last_request,
   services_url |-> services_url, users |-> users]

\* self._url(service)
url(self, service) == self.site_url \o self.services_url[service]

\* self._headers(soap_action)
headers(soap_action) ==
  [ContentType |-> <<"t","e","x","t","/","x","m","l",";"," ","c","h","a","r","s","e","t","=","U","T","F","-","8">>,
   SOAPAction |-> <<"h","t","t","p",":","/","/","s","c","h","e","m","a","s",".","m","i","c","r","o","s","o","f","t",".","c","o","m","/","s","h","a","r","e","p","o","i","n","t","/","s","o","a","p","/">> \o soap_action]

\* the keyword arguments of one self._session.post(...) call
Post(self, service, soap_action, data) ==
  [url |-> url(self, service), headers |-> headers(soap_action), data |-> data,
   verify |-> self.verify_ssl, timeout |-> self.timeout]

\* How a call ends
\* type is the Python type of the value returned
Return(type, value) ==
  [kind |-> "return", type |-> type, exc |-> "none", msg |-> None, value |-> value]

Raise(exc, msg) ==
  [kind |-> "raise", type |-> "none", exc |-> exc, msg |-> msg, value |-> None]

\* What a method did: the value it left in self.last_request, the posts it
\* made, the number of etree.fromstring calls, and how it ended
Did(request, posts, parses, result) ==
  [last_request |-> request, wire |-> posts, parses |-> parses, result |-> result]


\* ------------------------------------------------------------------------
\* get_users
\* ------------------------------------------------------------------------
\* {key[4:]: value for (key, value) in row.items() if key[4:]}, the pairs
\* taken in order, a later pair replacing an earlier one with the same key
RECURSIVE RowDictFrom(_, _)
RowDictFrom(items, d) ==
  IF items = << >> THEN d
  ELSE LET key == Head(items)[1]
           value == Head(items)[2]
       IN RowDictFrom(Tail(items),
                      IF SliceFrom(key, 4) # << >>
                      THEN DictSet(d, SliceFrom(key, 4), value)
                      ELSE d)

RowDict(row) == RowDictFrom(row.attrib, EmptyDict)

\* data: one dict per child of listitems
RowData(listitems) == [n \in 1..Len(listitems.children) |-> RowDict(listitems.children[n])]

\* Identity with the name put before the ID
Identity_NameFirst(i) == i[<<"I","m","n","N","a","m","e">>] \o <<";","#">> \o i[<<"I","D">>]

\* i["ID"] + ";#" + i["ImnName"]
Identity(i) == i[<<"I","D">>] \o <<";","#">> \o i[<<"I","m","n","N","a","m","e">>]

\* {i["ImnName"]: i["ID"] + ";#" + i["ImnName"] for i in data}
RECURSIVE PyFrom(_, _)
PyFrom(data, d) ==
  IF data = << >> THEN d
  ELSE PyFrom(Tail(data), DictSet(d, Head(data)[<<"I","m","n","N","a","m","e">>], Identity(Head(data))))

\* {i["ID"] + ";#" + i["ImnName"]: i["ImnName"] for i in data}
RECURSIVE SpFrom(_, _)
SpFrom(data, d) ==
  IF data = << >> THEN d
  ELSE SpFrom(Tail(data), DictSet(d, Identity(Head(data)), Head(data)[<<"I","m","n","N","a","m","e">>]))

\* the dict get_users returns
UserMaps(data) == [py |-> PyFrom(data, EmptyDict), sp |-> SpFrom(data, EmptyDict)]

\* the KeyError of the first row that lacks "ImnName" or "ID" (the key of a
\* comprehension item is evaluated before its value), None when no row does
RECURSIVE MissingKey(_)
MissingKey(data) ==
  IF data = << >> THEN None
  ELSE IF <<"I","m","n","N","a","m","e">> \notin DOMAIN Head(data) THEN <<"'","I","m","n","N","a","m","e","'">>
  ELSE IF <<"I","D">> \notin DOMAIN Head(data) THEN <<"'","I","D","'">>
  ELSE MissingKey(Tail(data))

\* the path of listitems in the envelope: envelope[0][0][0][0][0]
ListItemsPath == <<0, 0, 0, 0, 0>>

\* UsersFromResponse parsing the body before it looks at the status, and
\* leaving the parser's message out of its own
UsersFromResponse_ParsesFirst(self, response) ==
  LET parsed == fromstring(response, self.huge_tree)
  IN IF ~parsed.ok
     THEN [parses |-> 1,
           result |-> Raise("ConnectionError",
             <<"G","e","t","U","s","e","r","s"," ","G","e","t","L","i","s","t","I","t","e","m","s"," ","r","e","s","p","o","n","s","e"," ","f","a","i","l","e","d"," ","t","o"," ","p","a","r","s","e"," ","c","o","r","r","e","c","t","l","y">>)]
     ELSE IF response.status_code # 200
     THEN [parses |-> 1,
           result |-> Raise("ConnectionError", <<"G","e","t","U","s","e","r","s"," ","G","e","t","L","i","s","t","I","t","e","m","s"," ","r","e","q","u","e","s","t"," ","f","a","i","l","e","d">>)]
     ELSE IF ~HasPath(parsed.root, ListItemsPath)
     THEN [parses |-> 1, result |-> Raise("IndexError", <<"l","i","s","t"," ","i","n","d","e","x"," ","o","u","t"," ","o","f"," ","r","a","n","g","e">>)]
     ELSE LET data == RowData(AtPath(parsed.root, ListItemsPath))
          IN IF MissingKey(data) # None
             THEN [parses |-> 1, result |-> Raise("KeyError", MissingKey(data))]
             ELSE [parses |-> 1, result |-> Return("dict", UserMaps(data))]

\* what get_users does with a response it has received
UsersFromResponse(self, response) ==
  IF response.status_code # 200
  THEN [parses |-> 0,
        result |-> Raise("ConnectionError", <<"G","e","t","U","s","e","r","s"," ","G","e","t","L","i","s","t","I","t","e","m","s"," ","r","e","q","u","e","s","t"," ","f","a","i","l","e","d">>)]
  ELSE LET parsed == fromstring(response, self.huge_tree)
       IN IF ~parsed.ok
          THEN [parses |-> 1,
                result |-> Raise("ConnectionError",
                  <<"G","e","t","U","s","e","r","s"," ","G","e","t","L","i","s","t","I","t","e","m","s"," ","r","e","s","p","o","n","s","e"," ","f","a","i","l","e","d"," ","t","o"," ","p","a","r","s","e"," ","c","o","r","r","e","c","t","l","y",":"," ">>
                    \o parsed.err)]
          ELSE IF ~HasPath(parsed.root, ListItemsPath)
          THEN [parses |-> 1, result |-> Raise("IndexError", <<"l","i","s","t"," ","i","n","d","e","x"," ","o","u","t"," ","o","f"," ","r","a","n","g","e">>)]
          ELSE LET data == RowData(AtPath(parsed.root, ListItemsPath))
               IN IF MissingKey(data) # None
                  THEN [parses |-> 1, result |-> Raise("KeyError", MissingKey(data))]
                  ELSE [parses |-> 1, result |-> Return("dict", UserMaps(data))]

\* Site.get_users(rowlimit), the reply being what session.post answers
get_users(self, rowlimit, reply) ==
  LET soap_request ==
        add_parameter(add_parameter(Soap(<<"G","e","t","L","i","s","t","I","t","e","m","s">>), <<"l","i","s","t","N","a","m","e">>, <<"U","s","e","r","I","n","f","o">>),
                      <<"r","o","w","L","i","m","i","t">>, IntToStr(rowlimit))
      request == SoapStr(soap_request)
      posts == <<Post(self, "Lists", <<"G","e","t","L","i","s","t","I","t","e","m","s">>, EncodeUtf8(request))>>
  IN IF reply.exc
     THEN Did(request, posts, 0, Raise("TransportError", None))
     ELSE Did(request, posts, UsersFromResponse(self, reply).parses,
              UsersFromResponse(self, reply).result)


\* ------------------------------------------------------------------------
\* Replies of the server to GetListItems on UserInfo
\* ------------------------------------------------------------------------
Statuses == {200, 201, 302, 404, 500}

\* bodies that are no XML, with lxml's message for each
PlainBodies ==
  {[text |-> <<>>, xml |-> Malformed(<<"D","o","c","u","m","e","n","t"," ","i","s"," ","e","m","p","t","y",","," ","l","i","n","e"," ","1",","," ","c","o","l","u","m","n"," ","1">>)],
   [text |-> <<"b","o","o","m">>,
    xml |-> Malformed(<<"S","t","a","r","t"," ","t","a","g"," ","e","x","p","e","c","t","e","d",","," ","'","<","'"," ","n","o","t"," ","f","o","u","n","d",","," ","l","i","n","e"," ","1",","," ","c","o","l","u","m","n"," ","1">>)]}

\* the text of an XML body, abbreviated
XmlText == <<"<","s","o","a","p",":","E","n","v","e","l","o","p","e",">",".",".",".","<","/","s","o","a","p",":","E","n","v","e","l","o","p","e",">">>

Leaf(tag, attrib, text) == Element(tag, attrib, text, << >>)

\* a SOAP fault: well-formed, without the elements the methods index
FaultEnvelope ==
  Element(<<"s","o","a","p",":","E","n","v","e","l","o","p","e">>, << >>, None,
    <<Element(<<"s","o","a","p",":","B","o","d","y">>, << >>, None, <<Leaf(<<"s","o","a","p",":","F","a","u","l","t">>, << >>, <<"f","a","u","l","t">>)>>)>>)

FaultBody == [text |-> XmlText, xml |-> Document(FaultEnvelope, FALSE)]

\* the rows of UserInfo the server may send
RowOneA ==
  Leaf(<<"z",":","r","o","w">>, <<<<<<"o","w","s","_","I","D">>, <<"1">>>>, <<<<"o","w","s","_","I","m","n","N","a","m","e">>, <<"a">>>>,
                   <<<<"o","w","s","_","T","i","t","l","e">>, <<"x">>>>>>, None)

\* the display name of RowOneA under another ID
RowTwoA == Leaf(<<"z",":","r","o","w">>, <<<<<<"o","w","s","_","I","D">>, <<"2">>>>, <<<<"o","w","s","_","I","m","n","N","a","m","e">>, <<"a">>>>>>, None)

\* with two attributes whose key[4:] is empty
RowThreeB ==
  Leaf(<<"z",":","r","o","w">>, <<<<<<"o","w","s","_">>, <<"z">>>>, <<<<"o","w","s","_","I","D">>, <<"3">>>>,
                   <<<<"o","w","s","_","I","m","n","N","a","m","e">>, <<"b">>>>, <<<<"i","d">>, <<"9">>>>>>, None)

\* without ows_ImnName
RowNoName == Leaf(<<"z",":","r","o","w">>, <<<<<<"o","w","s","_","I","D">>, <<"4">>>>>>, None)

\* two rows whose ID + ";#" + ImnName is the same string
RowSplitId == Leaf(<<"z",":","r","o","w">>, <<<<<<"o","w","s","_","I","D">>, <<"1",";","#","a">>>>, <<<<"o","w","s","_","I","m","n","N","a","m","e">>, <<"b">>>>>>, None)

RowSplitName == Leaf(<<"z",":","r","o","w">>, <<<<<<"o","w","s","_","I","D">>, <<"1">>>>, <<<<"o","w","s","_","I","m","n","N","a","m","e">>, <<"a",";","#","b">>>>>>, None)

\* the GetListItems response envelope holding the given rows
UsersEnvelope(rows) ==
  Element(<<"s","o","a","p",":","E","n","v","e","l","o","p","e">>, << >>, None,
    <<Element(<<"s","o","a","p",":","B","o","d","y">>, << >>, None,
      <<Element(<<"G","e","t","L","i","s","t","I","t","e","m","s","R","e","s","p","o","n","s","e">>, << >>, None,
        <<Element(<<"G","e","t","L","i","s","t","I","t","e","m","s","R","e","s","u","l","t">>, << >>, None,
          <<Element(<<"l","i","s","t","i","t","e","m","s">>, << >>, None,
            <<Element(<<"r","s",":","d","a","t","a">>, <<<<<<"I","t","e","m","C","o","u","n","t">>, IntToStr(Len(rows))>>>>, None,
                      rows)>>)>>)>>)>>)>>)

\* the row sequences of the replies: every sequence of at most MaxRows
\* well-formed rows, and some with a row that lacks a key or with the two
\* rows of one identity string
UserRows ==
  SeqsUpTo({RowOneA, RowTwoA, RowThreeB}, MaxRows)
    \cup {<<RowNoName>>, <<RowOneA, RowNoName>>,
          <<RowSplitId, RowSplitName>>, <<RowSplitName, RowSplitId>>}

UserBodies ==
  {[text |-> XmlText, xml |-> Document(UsersEnvelope(rows), FALSE)] : rows \in UserRows}

\* a body the parser takes only with huge_tree
HugeUserBody ==
  [text |-> XmlText,
   xml |-> Document(UsersEnvelope(<<RowThreeB>>), TRUE)]

UsersReplies ==
  {TransportError}
    \cup {Response(st, b.text, b.xml) :
            st \in Statuses \ {200}, b \in PlainBodies \cup {FaultBody}}
    \cup {Response(200, b.text, b.xml) :
            b \in PlainBodies \cup UserBodies \cup {FaultBody, HugeUserBody}}

RowLimits == {0, 25}


\* ------------------------------------------------------------------------
\* Site.__init__
\* ------------------------------------------------------------------------
\* the arguments Site(...) is called with
CtorArgs ==
  {[site_url |-> <<"h","t","t","p",":","/","/","s","p">>, auth |-> <<"u","s","e","r",":","p","w">>, authcookie |-> None,
    verify_ssl |-> TRUE, ssl_version |-> None, huge_tree |-> FALSE,
    timeout |-> None],
   [site_url |-> <<"h","t","t","p","s",":","/","/","s","p","/","x">>, auth |-> <<"u","s","e","r",":","p","w">>, authcookie |-> <<"F","e","d","A","u","t","h","=","1">>,
    verify_ssl |-> FALSE, ssl_version |-> <<"T","L","S","v","1">>, huge_tree |-> TRUE,
    timeout |-> <<"3","0">>],
   [site_url |-> <<"h","t","t","p","s",":","/","/","s","p","/","x">>, auth |-> None, authcookie |-> None,
    verify_ssl |-> TRUE, ssl_version |-> <<"T","L","S","v","1">>, huge_tree |-> FALSE,
    timeout |-> <<"3","0">>]}

\* requests.Session() as __init__ configures it: the adapter mounted for
\* https://, the user-agent header, and either the cookie jar or the auth
NewSession(a) ==
  [adapters |-> [https |-> IF a.ssl_version # None
                           THEN <<"S","S","L","A","d","a","p","t","e","r",":">> \o a.ssl_version
                           ELSE <<"H","T","T","P","A","d","a","p","t","e","r">>],
   headers |-> [user_agent |-> <<"s","h","a","r","e","p","l","u","m","/">> \o version],
   cookies |-> IF a.authcookie # None THEN a.authcookie ELSE <<>>,
   auth |-> IF a.authcookie # None THEN None ELSE a.auth]

\* self when __init__ reaches its last line
SelfBeforeFetch(a) ==
  [site_url |-> a.site_url, verify_ssl |-> a.verify_ssl, session |-> NewSession(a),
   huge_tree |-> a.huge_tree, timeout |-> a.timeout, last_request |-> None,
   services_url |-> ServicesUrl, users |-> None]

\* __init__ catching the error of the fetch
InitCompletes_Always(result) == TRUE

\* Site(...) gives a Site when self.get_users() returns; when it raises,
\* __init__ raises the same and the caller gets no object
InitCompletes(result) == result.kind = "return"

NoCall ==
  [op |-> "none", arg |-> None, reply |-> TransportError, parses |-> 0,
   result |-> Return("NoneType", None)]

Called(op, arg, reply, did) ==
  [op |-> op, arg |-> arg, reply |-> reply, parses |-> did.parses,
   result |-> did.result]

Init ==
  /\ phase = "new"
  /\ site_url = None
  /\ verify_ssl = FALSE
  /\ session = None
  /\ huge_tree = FALSE
  /\ timeout = None
  /\ last_request = None
  /\ services_url = None
  /\ users = None
  /\ fetched = "none"
  /\ outcome = NoCall
  /\ wire = << >>

SiteInit ==
  /\ phase = "new"
  /\ outcome.op = "none"
  /\ \E a \in CtorArgs, reply \in UsersReplies :
       LET did == get_users(SelfBeforeFetch(a), 0, reply)
       IN /\ site_url' = a.site_url
          /\ verify_ssl' = a.verify_ssl
          /\ session' = NewSession(a)
          /\ huge_tree' = a.huge_tree
          /\ timeout' = a.timeout
          /\ services_url' = ServicesUrl
          /\ last_request' = did.last_request
          /\ wire' = did.wire
          /\ users' = IF did.result.kind = "return" THEN did.result.value ELSE None
          /\ phase' = IF InitCompletes(did.result) THEN "ready" ELSE "failed"
          /\ outcome' = Called("__init__", a.site_url, reply, did)
          /\ fetched' = did.result.kind

\* ------------------------------------------------------------------------
\* delete_list
\* ------------------------------------------------------------------------
\* response == 200: requests.Response defines no __eq__, so the comparison
\* is object identity against an int
ResponseEquals(response, n) == FALSE

\* RaiseForResponse without the call of raise_for_status
RaiseForResponse_NoStatusCheck(response, post) ==
  Raise("RuntimeError",
        <<"R","e","s","p","o","n","s","e"," ","c","o","d","e",":"," ">> \o IntToStr(response.status_code)
          \o <<","," ","r","e","s","p","o","n","s","e",":"," ">> \o response.text)

\* the else branch of delete_list and of get_list_collection:
\* response.raise_for_status(), then the RuntimeError
RaiseForResponse(response, post) ==
  IF raise_for_status(response, post.url) # None
  THEN Raise("HTTPError", raise_for_status(response, post.url))
  ELSE Raise("RuntimeError",
             <<"R","e","s","p","o","n","s","e"," ","c","o","d","e",":"," ">> \o IntToStr(response.status_code)
               \o <<","," ","r","e","s","p","o","n","s","e",":"," ">> \o response.text)

\* Site.delete_list(list_name)
delete_list(self, list_name, reply) ==
  LET soap_request == add_parameter(Soap(<<"D","e","l","e","t","e","L","i","s","t">>), <<"l","i","s","t","N","a","m","e">>, list_name)
      request == SoapStr(soap_request)
      post == Post(self, "Lists", <<"D","e","l","e","t","e","L","i","s","t">>, EncodeUtf8(request))
  IN IF reply.exc
     THEN Did(request, <<post>>, 0, Raise("TransportError", None))
     ELSE IF ResponseEquals(reply, 200)
     THEN Did(request, <<post>>, 0, Return("str", reply.text))
     ELSE Did(request, <<post>>, 0, RaiseForResponse(reply, post))

\* ------------------------------------------------------------------------
\* add_list
\* ------------------------------------------------------------------------
template_ids ==
  [k \in {<<"A","n","n","o","u","n","c","e","m","e","n","t","s">>, <<"C","o","n","t","a","c","t","s">>, <<"C","u","s","t","o","m"," ","L","i","s","t">>,
          <<"C","u","s","t","o","m"," ","L","i","s","t"," ","i","n"," ","D","a","t","a","s","h","e","e","t"," ","V","i","e","w">>, <<"D","a","t","a","S","o","u","r","c","e","s">>, <<"D","i","s","c","u","s","s","i","o","n"," ","B","o","a","r","d">>,
          <<"D","o","c","u","m","e","n","t"," ","L","i","b","r","a","r","y">>, <<"E","v","e","n","t","s">>, <<"F","o","r","m"," ","L","i","b","r","a","r","y">>, <<"I","s","s","u","e","s">>, <<"L","i","n","k","s">>,
          <<"P","i","c","t","u","r","e"," ","L","i","b","r","a","r","y">>, <<"S","u","r","v","e","y">>, <<"T","a","s","k","s">>} |->
     CASE k = <<"A","n","n","o","u","n","c","e","m","e","n","t","s">> -> <<"1","0","4">>
       [] k = <<"C","o","n","t","a","c","t","s">> -> <<"1","0","5">>
       [] k = <<"C","u","s","t","o","m"," ","L","i","s","t">> -> <<"1","0","0">>
       [] k = <<"C","u","s","t","o","m"," ","L","i","s","t"," ","i","n"," ","D","a","t","a","s","h","e","e","t"," ","V","i","e","w">> -> <<"1","2","0">>
       [] k = <<"D","a","t","a","S","o","u","r","c","e","s">> -> <<"1","1","0">>
       [] k = <<"D","i","s","c","u","s","s","i","o","n"," ","B","o","a","r","d">> -> <<"1","0","8">>
       [] k = <<"D","o","c","u","m","e","n","t"," ","L","i","b","r","a","r","y">> -> <<"1","0","1">>
       [] k = <<"E","v","e","n","t","s">> -> <<"1","0","6">>
       [] k = <<"F","o","r","m"," ","L","i","b","r","a","r","y">> -> <<"1","1","5">>
       [] k = <<"I","s","s","u","e","s">> -> <<"1","1","0","0">>
       [] k = <<"L","i","n","k","s">> -> <<"1","0","3">>
       [] k = <<"P","i","c","t","u","r","e"," ","L","i","b","r","a","r","y">> -> <<"1","0","9">>
       [] k = <<"S","u","r","v","e","y">> -> <<"1","0","2">>
       [] k = <<"T","a","s","k","s">> -> <<"1","0","7">>]

\* a template_id argument: an int or a str
PyInt(n) == [type |-> "int", n |-> n, s |-> None]

PyStr(s) == [type |-> "str", n |-> 0, s |-> s]

\* ResolveTemplate with the table lookup left out: a name goes through as it is
ResolveTemplate_NoLookup(template_id) ==
  IF template_id.type = "int"
  THEN [ok |-> TRUE, id |-> IntToStr(template_id.n), key |-> None]
  ELSE [ok |-> TRUE, id |-> template_id.s, key |-> None]

\* the conversion of template_id: [ok |-> TRUE, id] with the string that
\* goes into the envelope, or [ok |-> FALSE, key] for the KeyError of the
\* table lookup
ResolveTemplate(template_id) ==
  IF template_id.type = "int"
  THEN [ok |-> TRUE, id |-> IntToStr(template_id.n), key |-> None]
  ELSE IF isdigit(template_id.s)
  THEN [ok |-> TRUE, id |-> template_id.s, key |-> None]
  ELSE IF template_id.s \in DOMAIN template_ids
  THEN [ok |-> TRUE, id |-> template_ids[template_id.s], key |-> None]
  ELSE [ok |-> FALSE, id |-> None, key |-> template_id.s]

\* repr(s) of a str without quotes in it
Repr(s) == <<"'">> \o s \o <<"'">>

\* add_list storing the request before it converts template_id
add_list_StoresRequestFirst(self, list_name, description, template_id, reply) ==
  LET resolved == ResolveTemplate(template_id)
      soap_request ==
        add_parameter(
          add_parameter(add_parameter(Soap(<<"A","d","d","L","i","s","t">>), <<"l","i","s","t","N","a","m","e">>, list_name),
                        <<"d","e","s","c","r","i","p","t","i","o","n">>, description),
          <<"t","e","m","p","l","a","t","e","I","D">>, resolved.id)
      request == SoapStr(soap_request)
      early ==
        SoapStr(add_parameter(add_parameter(Soap(<<"A","d","d","L","i","s","t">>), <<"l","i","s","t","N","a","m","e">>, list_name),
                              <<"d","e","s","c","r","i","p","t","i","o","n">>, description))
      post == Post(self, "Lists", <<"A","d","d","L","i","s","t">>, request)
  IN IF ~resolved.ok
     THEN Did(early, << >>, 0, Raise("KeyError", Repr(resolved.key)))
     ELSE IF reply.exc
     THEN Did(request, <<post>>, 0, Raise("TransportError", None))
     ELSE Did(request, <<post>>, 0, Return("Response", reply))

\* Site.add_list(list_name, description, template_id)
add_list(self, list_name, description, template_id, reply) ==
  LET resolved == ResolveTemplate(template_id)
      soap_request ==
        add_parameter(
          add_parameter(add_parameter(Soap(<<"A","d","d","L","i","s","t">>), <<"l","i","s","t","N","a","m","e">>, list_name),
                        <<"d","e","s","c","r","i","p","t","i","o","n">>, description),
          <<"t","e","m","p","l","a","t","e","I","D">>, resolved.id)
      request == SoapStr(soap_request)
      post == Post(self, "Lists", <<"A","d","d","L","i","s","t">>, request)
  IN IF ~resolved.ok
     THEN Did(self.last_request, << >>, 0, Raise("KeyError", Repr(resolved.key)))
     ELSE IF reply.exc
     THEN Did(request, <<post>>, 0, Raise("TransportError", None))
     ELSE IF ResponseEquals(reply, 200)
     THEN Did(request, <<post>>, 0, Return("str", reply.text))
     ELSE Did(request, <<post>>, 0, Return("Response", reply))

\* ------------------------------------------------------------------------
\* get_list_collection
\* ------------------------------------------------------------------------
\* the {namespace} prefix lxml puts before the local name of a tag
SoapTagPrefix == <<"{">> \o SoapNamespace \o <<"}">>

\* _list_data: for item in _list: _list_data[key] = value
RECURSIVE ListDataFrom(_, _)
ListDataFrom(items, d) ==
  IF items = << >> THEN d
  ELSE ListDataFrom(Tail(items),
                    DictSet(d, Replace(Head(items).tag, SoapTagPrefix, << >>),
                            Head(items).text))

\* data: one dict per child of lists, in order
ListsData(lists) ==
  [n \in 1..Len(lists.children) |-> ListDataFrom(lists.children[n].children, EmptyDict)]

\* the first child of the response element in place of the second
ListsPath_FirstChild == <<0, 0, 0>>

\* the path of the list collection in the envelope: envelope[0][0][1]
ListsPath == <<0, 0, 1>>

\* Site.get_list_collection()
get_list_collection(self, reply) ==
  LET soap_request == Soap(<<"G","e","t","L","i","s","t","C","o","l","l","e","c","t","i","o","n">>)
      request == SoapStr(soap_request)
      post == Post(self, "SiteData", <<"G","e","t","L","i","s","t","C","o","l","l","e","c","t","i","o","n">>, EncodeUtf8(request))
      parsed == fromstring(reply, self.huge_tree)
  IN IF reply.exc
     THEN Did(request, <<post>>, 0, Raise("TransportError", None))
     ELSE IF reply.status_code = 200
     THEN IF ~parsed.ok
          THEN Did(request, <<post>>, 1, Raise("XMLSyntaxError", parsed.err))
          ELSE IF ~HasPath(parsed.root, ListsPath)
          THEN Did(request, <<post>>, 1, Raise("IndexError", <<"l","i","s","t"," ","i","n","d","e","x"," ","o","u","t"," ","o","f"," ","r","a","n","g","e">>))
          ELSE Did(request, <<post>>, 1,
                   Return("list", ListsData(AtPath(parsed.root, ListsPath))))
     ELSE Did(request, <<post>>, 0, RaiseForResponse(reply, post))

\* ------------------------------------------------------------------------
\* list
\* ------------------------------------------------------------------------
\* _List(session, list_name, url, verify_ssl, users, huge_tree, timeout,
\*       exclude_hidden_fields=...): the object keeps what it is given; url
\* is the bound method self._url, here its graph
NewList(session_, list_name, url_, verify_ssl_, users_, huge_tree_, timeout_, exclude) ==
  [session |-> session_, list_name |-> list_name, url |-> url_,
   verify_ssl |-> verify_ssl_, users |-> users_, huge_tree |-> huge_tree_,
   timeout |-> timeout_, exclude_hidden_fields |-> exclude]

\* Site.list(list_name, exclude_hidden_fields)
list(self, list_name, exclude_hidden_fields) ==
  Did(self.last_request, << >>, 0,
      Return("_List",
             NewList(self.session, list_name,
                     [service \in DOMAIN self.services_url |-> url(self, service)],
                     self.verify_ssl, self.users, self.huge_tree, self.timeout,
                     exclude_hidden_fields)))

\* get_users keeping what it fetched in self.users
GetUsers_StoresCache ==
  /\ phase = "ready"
  /\ outcome.op = "none"
  /\ \E rowlimit \in RowLimits, reply \in UsersReplies :
       LET did == get_users(Self, rowlimit, reply)
       IN /\ last_request' = did.last_request
          /\ wire' = did.wire
          /\ outcome' = Called("get_users", IntToStr(rowlimit), reply, did)
          /\ users' = IF did.result.kind = "return" THEN did.result.value ELSE users
          /\ UNCHANGED <<phase, config, fetched>>

\* a later call of site.get_users(rowlimit): the result goes to the caller
GetUsers ==
  /\ phase = "ready"
  /\ outcome.op = "none"
  /\ \E rowlimit \in RowLimits, reply \in UsersReplies :
       LET did == get_users(Self, rowlimit, reply)
       IN /\ last_request' = did.last_request
          /\ wire' = did.wire
          /\ outcome' = Called("get_users", IntToStr(rowlimit), reply, did)
          /\ UNCHANGED <<phase, config, users, fetched>>

\* ------------------------------------------------------------------------
\* The arguments and replies of the other operations
\* ------------------------------------------------------------------------
ListNames == {<<"T","a","s","k","s">>, <<"D","o","c","s">>}

Descriptions == {<<"d">>}

TemplateArgs ==
  {PyStr(k) : k \in DOMAIN template_ids}
    \cup {PyStr(<<"N","o","n","e","x","i","s","t","e","n","t"," ","T","e","m","p","l","a","t","e">>), PyStr(<<>>), PyStr(<<"1","0","a">>)}
    \cup {PyInt(n) : n \in {101, 1100, 7, 0, -5}}
    \cup {PyStr(<<"1","0","1">>), PyStr(<<"1","1","0","0">>), PyStr(<<"7">>), PyStr(<<"0","0","7">>)}

DeleteListReplies ==
  {TransportError}
    \cup {Response(st, b.text, b.xml) : st \in Statuses, b \in PlainBodies \cup {FaultBody}}

AddListReplies ==
  {TransportError, Response(200, FaultBody.text, FaultBody.xml)}
    \cup {Response(st, b.text, b.xml) :
            st \in Statuses, b \in {x \in PlainBodies : x.text # << >>}}

\* the child fields of one list element of a GetListCollection response
Field(local, text) == Leaf(SoapTagPrefix \o local, << >>, text)

ListTasks ==
  Element(SoapTagPrefix \o <<"_","s","L","i","s","t">>, << >>, None,
          <<Field(<<"T","i","t","l","e">>, <<"T","a","s","k","s">>), Field(<<"B","a","s","e","T","y","p","e">>, <<"0">>),
            Field(<<"D","e","s","c","r","i","p","t","i","o","n">>, None)>>)

ListDocs ==
  Element(SoapTagPrefix \o <<"_","s","L","i","s","t">>, << >>, None,
          <<Field(<<"T","i","t","l","e">>, <<"D","o","c","s">>), Field(<<"B","a","s","e","T","y","p","e">>, <<"1">>),
            Field(<<"D","e","s","c","r","i","p","t","i","o","n">>, <<"d">>)>>)

\* a list element with two child fields of one tag
ListTwoTitles ==
  Element(SoapTagPrefix \o <<"_","s","L","i","s","t">>, << >>, None,
          <<Field(<<"T","i","t","l","e">>, <<"a">>), Field(<<"B","a","s","e","T","y","p","e">>, <<"0">>), Field(<<"T","i","t","l","e">>, <<"b">>)>>)

\* a list element with a child field in no namespace, named as another one
ListBareTitle ==
  Element(SoapTagPrefix \o <<"_","s","L","i","s","t">>, << >>, None,
          <<Leaf(<<"T","i","t","l","e">>, << >>, <<"b">>), Field(<<"B","a","s","e","T","y","p","e">>, <<"0">>),
            Field(<<"T","i","t","l","e">>, <<"a">>)>>)

ListElements == {ListTasks, ListDocs, ListTwoTitles, ListBareTitle}

\* the GetListCollection response envelope holding the given list elements
ListsEnvelope(lists) ==
  Element(<<"s","o","a","p",":","E","n","v","e","l","o","p","e">>, << >>, None,
    <<Element(<<"s","o","a","p",":","B","o","d","y">>, << >>, None,
      <<Element(SoapTagPrefix \o <<"G","e","t","L","i","s","t","C","o","l","l","e","c","t","i","o","n","R","e","s","p","o","n","s","e">>, << >>, None,
        <<Leaf(SoapTagPrefix \o <<"G","e","t","L","i","s","t","C","o","l","l","e","c","t","i","o","n","R","e","s","u","l","t">>, << >>, None),
          Element(SoapTagPrefix \o <<"v","L","i","s","t","s">>, << >>, None, lists)>>)>>)>>)

ListBodies ==
  {[text |-> XmlText, xml |-> Document(ListsEnvelope(lists), FALSE)] :
     lists \in SeqsUpTo(ListElements, MaxLists)}

HugeListBody == [text |-> XmlText, xml |-> Document(ListsEnvelope(<<ListDocs>>), TRUE)]

ListsReplies ==
  {TransportError}
    \cup {Response(st, b.text, b.xml) :
            st \in Statuses \ {200}, b \in PlainBodies \cup {FaultBody}}
    \cup {Response(200, b.text, b.xml) :
            b \in PlainBodies \cup ListBodies \cup {FaultBody, HugeListBody}}

\* ------------------------------------------------------------------------
\* The calls a program makes on a Site
\* ------------------------------------------------------------------------
AddList ==
  /\ phase = "ready"
  /\ outcome.op = "none"
  /\ \E list_name \in {<<"T","a","s","k","s">>}, description \in Descriptions,
        template_id \in TemplateArgs, reply \in AddListReplies :
       LET did == add_list(Self, list_name, description, template_id, reply)
       IN /\ last_request' = did.last_request
          /\ wire' = did.wire
          /\ outcome' = Called("add_list", template_id, reply, did)
          /\ UNCHANGED <<phase, config, users, fetched>>

DeleteList ==
  /\ phase = "ready"
  /\ outcome.op = "none"
  /\ \E list_name \in ListNames, reply \in DeleteListReplies :
       LET did == delete_list(Self, list_name, reply)
       IN /\ last_request' = did.last_request
          /\ wire' = did.wire
          /\ outcome' = Called("delete_list", list_name, reply, did)
          /\ UNCHANGED <<phase, config, users, fetched>>

GetListCollection ==
  /\ phase = "ready"
  /\ outcome.op = "none"
  /\ \E reply \in ListsReplies :
       LET did == get_list_collection(Self, reply)
       IN /\ last_request' = did.last_request
          /\ wire' = did.wire
          /\ outcome' = Called("get_list_collection", None, reply, did)
          /\ UNCHANGED <<phase, config, users, fetched>>

SiteList ==
  /\ phase = "ready"
  /\ outcome.op = "none"
  /\ \E list_name \in ListNames, exclude_hidden_fields \in BOOLEAN :
       LET did == list(Self, list_name, exclude_hidden_fields)
       IN /\ last_request' = did.last_request
          /\ wire' = did.wire
          /\ outcome' = Called("list", list_name, TransportError, did)
          /\ UNCHANGED <<phase, config, users, fetched>>

\* The client is synchronous: the caller has the result of a call, or its
\* exception, before it makes the next one.  outcome and wire describe the
\* call that has just ended.
CallerContinues ==
  /\ outcome.op # "none"
  /\ outcome' = NoCall
  /\ wire' = << >>
  /\ UNCHANGED <<phase, config, last_request, users, fetched>>

Next ==
  \/ SiteInit
  \/ AddList
  \/ DeleteList
  \/ GetListCollection
  \/ GetUsers
  \/ SiteList
  \/ CallerContinues

Spec == Init /\ [][Next]_vars


\* ------------------------------------------------------------------------
\* Properties
\* ------------------------------------------------------------------------
\* the operations of a constructed Site
SiteOps == {"add_list", "delete_list", "get_list_collection", "get_users", "list"}

\* sub in s
Contains(s, sub) ==
  \E i \in 1..(Len(s) + 1) :
    i + Len(sub) - 1 <= Len(s) /\ SubSeq(s, i, i + Len(sub) - 1) = sub

\* the first index at which sub occurs in s, 0 when it does not
Find(s, sub) ==
  LET at == {i \in 1..Len(s) : i + Len(sub) - 1 <= Len(s)
                                 /\ SubSeq(s, i, i + Len(sub) - 1) = sub}
  IN IF at = {} THEN 0 ELSE CHOOSE i \in at : \A j \in at : i <= j

\* the text of the element <name> in a serialized envelope
ParamValue(envelope, name) ==
  LET open == <<"<">> \o name \o <<">">>
      close == <<"<","/">> \o name \o <<">">>
  IN SubSeq(envelope, Find(envelope, open) + Len(open), Find(envelope, close) - 1)

\* C1: delete_list returns the response body text, and raises nothing,
\* whenever the response to the DeleteList POST has status 200.
C1_DeleteListReturnsTextOn200 ==
  (outcome.op = "delete_list" /\ ~outcome.reply.exc /\ outcome.reply.status_code = 200)
    => /\ outcome.result.kind = "return"
       /\ outcome.result.type = "str"
       /\ outcome.result.value = outcome.reply.text

\* C2 as stated: for every non-200 status delete_list raises an error whose
\* message contains both the status code and the response body text.
C2_DeleteListErrorHasCodeAndBody ==
  (outcome.op = "delete_list" /\ ~outcome.reply.exc /\ outcome.reply.status_code # 200)
    => /\ outcome.result.kind = "raise"
       /\ Contains(outcome.result.msg, IntToStr(outcome.reply.status_code))
       /\ Contains(outcome.result.msg, outcome.reply.text)

\* C2 amended: for every non-200 status delete_list raises an error whose
\* message contains the status code.  For a status outside 400..599 it is
\* the RuntimeError, whose message contains the body text as well; for a
\* status in 400..599 it is the HTTPError of raise_for_status, whose message
\* is made of the status code, the reason phrase and the URL.
C2_DeleteListErrorByStatus ==
  (outcome.op = "delete_list" /\ ~outcome.reply.exc /\ outcome.reply.status_code # 200)
    => /\ outcome.result.kind = "raise"
       /\ Contains(outcome.result.msg, IntToStr(outcome.reply.status_code))
       /\ IF 400 <= outcome.reply.status_code /\ outcome.reply.status_code < 600
          THEN /\ outcome.result.exc = "HTTPError"
               /\ Contains(outcome.result.msg, outcome.reply.reason)
               /\ Contains(outcome.result.msg, wire[1].url)
          ELSE /\ outcome.result.exc = "RuntimeError"
               /\ Contains(outcome.result.msg, outcome.reply.text)

C2_Witness ==
  /\ outcome.op = "delete_list"
  /\ ~outcome.reply.exc
  /\ outcome.reply.status_code = 404
  /\ outcome.reply.text = <<"b","o","o","m">>
  /\ outcome.result.exc = "HTTPError"

\* C3: add_list returns the response body text when the AddList POST
\* succeeds (HTTP 200), and the raw response object only when it does not.
C3_AddListReturnsTextOn200 ==
  (outcome.op = "add_list" /\ wire # << >> /\ ~outcome.reply.exc)
    => /\ outcome.reply.status_code = 200
          => (outcome.result.type = "str" /\ outcome.result.value = outcome.reply.text)
       /\ outcome.result.type = "Response" => outcome.reply.status_code # 200


\* the int a decimal string denotes
RECURSIVE DecimalValue(_)
DecimalValue(s) ==
  IF s = << >> THEN 0
  ELSE IF Head(s) = "-" THEN 0 - DecimalValue(Tail(s))
  ELSE 10 * DecimalValue(SubSeq(s, 1, Len(s) - 1))
         + (CHOOSE d \in 0..9 : Digits[d + 1] = s[Len(s)])

\* a decimal string as str(int) writes it: no sign but "-", no leading zero
IsDecimal(s) ==
  LET digits == IF s # << >> /\ Head(s) = "-" THEN Tail(s) ELSE s
  IN isdigit(digits) /\ (Len(digits) > 1 => Head(digits) # "0")

\* C4: the integer id, its numeric string and the display name of a template
\* of the table make add_list put the same numeric templateID string in the
\* envelope that is posted and stored in last_request; an int or a numeric
\* string outside the table goes through as its decimal string.
C4_TemplateFormsAgree ==
  (outcome.op = "add_list" /\ wire # << >>)
    => LET sent == ParamValue(wire[1].data, <<"t","e","m","p","l","a","t","e","I","D">>)
           given == outcome.arg
       IN /\ last_request = wire[1].data
          /\ given.type = "int" => (IsDecimal(sent) /\ DecimalValue(sent) = given.n)
          /\ (given.type = "str" /\ isdigit(given.s)) => sent = given.s
          /\ (given.type = "str" /\ given.s \in DOMAIN template_ids)
               => /\ sent = template_ids[given.s]
                  /\ isdigit(sent)
                  /\ ResolveTemplate(PyStr(sent)).id = sent
                  /\ ResolveTemplate(PyInt(DecimalValue(sent))).id = sent

C4_Witness ==
  /\ outcome.op = "add_list"
  /\ wire # << >>
  /\ outcome.arg = PyStr(<<"D","o","c","u","m","e","n","t"," ","L","i","b","r","a","r","y">>)
  /\ ParamValue(last_request, <<"t","e","m","p","l","a","t","e","I","D">>) = <<"1","0","1">>

\* the template_id arguments that are neither an int, nor all digits, nor a
\* key of the table
UnknownTemplate(template_id) ==
  /\ template_id.type = "str"
  /\ ~isdigit(template_id.s)
  /\ template_id.s \notin DOMAIN template_ids

\* C5: add_list with a template_id string that is not all digits and no key
\* of the table (the empty string too) fails with a lookup error before any
\* HTTP call: the call posts nothing and last_request keeps its value.
C5_UnknownTemplateFailsBeforePost ==
  [][(outcome.op = "none" /\ outcome'.op = "add_list" /\ UnknownTemplate(outcome'.arg))
       => /\ outcome'.result.kind = "raise"
          /\ outcome'.result.exc = "KeyError"
          /\ wire' = << >>
          /\ last_request' = last_request]_vars

C5_Witness ==
  /\ outcome.op = "add_list"
  /\ outcome.arg = PyStr(<<>>)
  /\ outcome.result.exc = "KeyError"
  /\ wire = << >>
  /\ Contains(last_request, <<"D","e","l","e","t","e","L","i","s","t">>)


\* the value of attribute key of a row (attribute names are unique)
AttrOf(row, key) ==
  LET k == CHOOSE n \in 1..Len(row.attrib) : row.attrib[n][1] = key
  IN row.attrib[k][2]

\* the rows of the reply of the last call: the children of rs:data in
\* Envelope/Body/GetListItemsResponse/GetListItemsResult/listitems
ReplyRows ==
  outcome.reply.xml.root.children[1].children[1].children[1].children[1].children[1].children

RowId(n) == AttrOf(ReplyRows[n], <<"o","w","s","_","I","D">>)

RowName(n) == AttrOf(ReplyRows[n], <<"o","w","s","_","I","m","n","N","a","m","e">>)

RowIdentity(n) == RowId(n) \o <<";","#">> \o RowName(n)

\* get_users has returned its mappings, at construction or later
UsersReturned == outcome.op \in {"__init__", "get_users"} /\ outcome.result.type = "dict"

\* C6 as stated: for every row set, rows sharing an ImnName included, py and
\* sp are inverses of each other: sp[py[name]] = name for every name in py
\* and py[sp[identity]] = identity for every identity in sp.
C6_MappingsAreInverses ==
  UsersReturned
    => LET py == outcome.result.value.py
           sp == outcome.result.value.sp
       IN /\ \A name \in DOMAIN py : py[name] \in DOMAIN sp /\ sp[py[name]] = name
          /\ \A identity \in DOMAIN sp :
               sp[identity] \in DOMAIN py /\ py[sp[identity]] = identity

\* C6 amended: for rows whose IDs are digit strings, py is keyed by the
\* ImnNames and sp by the identities "<ID>;#<ImnName>" of the rows,
\* sp[py[name]] = name for every name in py, sp maps every row's identity to
\* its ImnName, and py[sp[identity]] = identity holds for the identity of a
\* row exactly when the last row with the same ImnName has the same ID: py
\* and sp are inverses of each other when the ImnNames are distinct.
C6_InverseUpToSharedNames ==
  (UsersReturned /\ \A n \in 1..Len(ReplyRows) : isdigit(RowId(n)))
    => LET py == outcome.result.value.py
           sp == outcome.result.value.sp
           rows == 1..Len(ReplyRows)
       IN /\ DOMAIN py = {RowName(n) : n \in rows}
          /\ DOMAIN sp = {RowIdentity(n) : n \in rows}
          /\ \A name \in DOMAIN py : py[name] \in DOMAIN sp /\ sp[py[name]] = name
          /\ \A n \in rows : sp[RowIdentity(n)] = RowName(n)
          /\ \A n \in rows :
               LET last == CHOOSE m \in rows :
                             /\ RowName(m) = RowName(n)
                             /\ \A k \in rows : RowName(k) = RowName(n) => k <= m
               IN (py[sp[RowIdentity(n)]] = RowIdentity(n)) <=> (RowId(last) = RowId(n))

C6_Witness ==
  /\ UsersReturned
  /\ Len(ReplyRows) = 2
  /\ RowId(1) = <<"1">> /\ RowId(2) = <<"2">>
  /\ RowName(1) = <<"a">> /\ RowName(2) = <<"a">>
  /\ outcome.result.value.py[<<"a">>] = <<"2",";","#","a">>

\* C7: a _List is built only after the get_users call of __init__ has
\* returned, and it is given the cache that call returned; no operation runs
\* on a Site whose construction failed, and a failed fetch makes
\* construction fail with the error of the fetch.
C7_ListAfterSuccessfulFetch ==
  /\ outcome.op \in SiteOps => (fetched = "return" /\ phase = "ready")
  /\ outcome.op = "list"
       => /\ DOMAIN users = {"py", "sp"}
          /\ outcome.result.value.users = users
  /\ fetched = "raise" <=> phase = "failed"
  /\ (outcome.op = "__init__" /\ fetched = "raise")
       => /\ outcome.result.kind = "raise"
          /\ outcome.result.exc \in
               {"ConnectionError", "TransportError", "IndexError", "KeyError"}
  /\ (outcome.op = "__init__" /\ fetched = "return") => users = outcome.result.value

C7_Witness ==
  /\ outcome.op = "list"
  /\ fetched = "return"
  /\ outcome.result.value.users = users
  /\ <<"a">> \in DOMAIN users.py

\* C8: when the status of the GetListItems response is not 200, get_users
\* raises a connection error without parsing the body; when it is 200 and
\* the body is no well-formed XML, get_users raises a connection error whose
\* message includes the parser's message; it returns no mapping in either.
C8_GetUsersErrorKinds ==
  (outcome.op \in {"__init__", "get_users"} /\ ~outcome.reply.exc)
    => /\ outcome.reply.status_code # 200
          => /\ outcome.result.kind = "raise"
             /\ outcome.result.exc = "ConnectionError"
             /\ outcome.parses = 0
       /\ (outcome.reply.status_code = 200 /\ ~outcome.reply.xml.wf)
          => /\ outcome.result.kind = "raise"
             /\ outcome.result.exc = "ConnectionError"
             /\ Contains(outcome.result.msg, outcome.reply.xml.err)

C8_Witness ==
  /\ outcome.op = "get_users"
  /\ outcome.reply.status_code = 200
  /\ outcome.reply.text = <<"b","o","o","m">>
  /\ outcome.result.exc = "ConnectionError"
  /\ Contains(outcome.result.msg, <<"S","t","a","r","t"," ","t","a","g"," ","e","x","p","e","c","t","e","d">>)

\* the tag of a field without the SharePoint SOAP namespace prefix
StripPrefix(tag) ==
  IF Len(tag) >= Len(SoapTagPrefix) /\ SubSeq(tag, 1, Len(SoapTagPrefix)) = SoapTagPrefix
  THEN SubSeq(tag, Len(SoapTagPrefix) + 1, Len(tag))
  ELSE tag

\* the list elements of the reply of the last call: the children of the
\* second child of Envelope/Body/GetListCollectionResponse
ReplyLists == outcome.reply.xml.root.children[1].children[1].children[2].children

ListsReturned == outcome.op = "get_list_collection" /\ outcome.result.type = "list"

\* C9 as stated: one record per child list element, in document order, and
\* in each record one key per child field of that element, the key being
\* the stripped tag and the value the text of the field.
C9_OneKeyPerField ==
  ListsReturned
    => LET data == outcome.result.value
       IN /\ Len(data) = Len(ReplyLists)
          /\ \A n \in 1..Len(data) :
               LET fields == ReplyLists[n].children
               IN /\ Cardinality(DOMAIN data[n]) = Len(fields)
                  /\ \A k \in 1..Len(fields) :
                       /\ StripPrefix(fields[k].tag) \in DOMAIN data[n]
                       /\ data[n][StripPrefix(fields[k].tag)] = fields[k].text

\* C9 amended: one record per child list element, in document order; the
\* keys of a record are the stripped tags of the element's child fields, and
\* the value of a key is the text of the last field with that stripped tag;
\* so a list element whose fields have distinct stripped tags gives one key
\* per field, with the text of that field.
C9_LastFieldPerKey ==
  ListsReturned
    => LET data == outcome.result.value
       IN /\ Len(data) = Len(ReplyLists)
          /\ \A n \in 1..Len(data) :
               LET fields == ReplyLists[n].children
                   key(k) == StripPrefix(fields[k].tag)
                   at == 1..Len(fields)
               IN /\ DOMAIN data[n] = {key(k) : k \in at}
                  /\ \A k \in at :
                       (\A j \in at : j > k => key(j) # key(k))
                         => data[n][key(k)] = fields[k].text
                  /\ (\A j, k \in at : j # k => key(j) # key(k))
                       => Cardinality(DOMAIN data[n]) = Len(fields)

C9_Witness ==
  /\ ListsReturned
  /\ Len(outcome.result.value) = 2
  /\ DOMAIN outcome.result.value[1] = {<<"T","i","t","l","e">>, <<"B","a","s","e","T","y","p","e">>, <<"D","e","s","c","r","i","p","t","i","o","n">>}
  /\ DOMAIN outcome.result.value[2] = {<<"T","i","t","l","e">>, <<"B","a","s","e","T","y","p","e">>, <<"D","e","s","c","r","i","p","t","i","o","n">>}
  /\ outcome.result.value[1][<<"T","i","t","l","e">>] = <<"T","a","s","k","s">>
  /\ outcome.result.value[2][<<"T","i","t","l","e">>] = <<"D","o","c","s">>

\* C10: once a Site is constructed, no operation, ending either way, changes
\* the session configuration, the site URL, the service registry or
\* self.users; an operation changes no field but last_request, and posts at
\* most once.
C10_OperationsFrame ==
  /\ [][phase = "ready"
          => (phase' = phase /\ config' = config /\ users' = users)]_vars
  /\ [](Len(wire) <= 1)

C10_Witness ==
  /\ phase = "ready"
  /\ outcome.op = "get_users"
  /\ outcome.result.type = "dict"
  /\ outcome.result.value # users
  /\ Len(wire) = 1

=============================================================================
